---- MODULE Spec2Model ----
(***************************************************************************)
(* A model of the mini-shell execution engine of src/cmd.c: the recursive  *)
(* evaluator parse_command, the leaf executor parse_simple, the process    *)
(* orchestration of run_in_parallel and run_on_pipe, and the redirection   *)
(* helpers redirect_to_file and cmd_redirection.                           *)
(*                                                                         *)
(* Every process is a record holding the call stack of the C code (one     *)
(* frame per active call of parse_command, parse_simple, run_in_parallel,  *)
(* run_on_pipe), its descriptor table and what it has evaluated so far.    *)
(* fork() copies the whole record, so a child that returns instead of      *)
(* calling exit() goes on in the frames it inherited from its parent.      *)
(***************************************************************************)
EXTENDS Integers, Sequences, FiniteSets, TLC

\* ------------------------------------------------------------ bounds
\* exit statuses an external program may choose: 0..MaxStatus
MaxStatus == 2
\* number of bytes the writer program emits on its standard output
MaxBytes == 2
\* capacity of a pipe's kernel buffer, in bytes
PipeCap == 1
\* number of fork, waitpid, pipe and setenv calls that fail in one run
MaxFaults == 1

\* ------------------------------------------------------------ constants
STDIN_FILENO == 0
STDOUT_FILENO == 1
STDERR_FILENO == 2
EXIT_SUCCESS == 0
\* the TERMINATE sentinel of cmd.h: a negative value, distinct from every
\* ordinary status (parse_command's "ret_op_status < 0" test propagates it)
SHELL_EXIT == -100

\* ------------------------------------------------------------ command trees
NoFile == "none"

\* a simple_command_t: verb, the three redirect targets and io_flags;
\* hasparam: s->params is non-NULL; hasvalue: the verb has a value part
\* (s->verb->next_part->next_part is non-NULL)
Simple(verb, in, out, err, io) ==
    [op |-> "OP_NONE", verb |-> verb, in |-> in, out |-> out, err |-> err,
     io_flags |-> io, hasparam |-> TRUE, hasvalue |-> TRUE]

Plain(verb) == Simple(verb, NoFile, NoFile, NoFile, "IO_REGULAR")

\* a command_t with an operator and two sub-commands
Binary(op, c1, c2) == [op |-> op, cmd1 |-> c1, cmd2 |-> c2]

\* a NULL command_t pointer
NullCmd == [op |-> "NULL"]

\* strchr(verb, '='): the verbs of the model that are assignments
IsAssign(verb) == verb \in {"NAME=VALUE", "NAME=OTHER"}

\* get_word(s->verb->next_part->next_part): the value an assignment gives NAME
AssignValue(verb) == IF verb = "NAME=VALUE" THEN "VALUE" ELSE "OTHER"

\* get_word(dir): the directory every cd of the model names
TargetDir(s) == "d"

\* the working directory and the value of NAME the shell starts with
InitCwd == "home"
InitEnv == "unset"

IsLeaf(c) == c.op = "OP_NONE"
IsBinary(c) == c.op \notin {"OP_NONE", "NULL"}

\* the node of tree t at path (a sequence over {1, 2}: cmd1 / cmd2)
RECURSIVE NodeAt(_, _)
NodeAt(t, path) ==
    IF path = <<>> THEN t
    ELSE NodeAt(IF Head(path) = 1 THEN t.cmd1 ELSE t.cmd2, Tail(path))

\* all paths of tree t
RECURSIVE Paths(_)
Paths(t) ==
    IF IsBinary(t)
    THEN {<<>>} \cup {<<1>> \o p : p \in Paths(t.cmd1)}
                \cup {<<2>> \o p : p \in Paths(t.cmd2)}
    ELSE {<<>>}

SeqOps == {"OP_SEQUENTIAL", "OP_CONDITIONAL_NZERO", "OP_CONDITIONAL_ZERO"}
ForkOps == {"OP_PARALLEL", "OP_PIPE"}
AllOps == SeqOps \cup ForkOps

\* ------------------------------------------------------------ descriptors
\* A descriptor refers to the terminal (id: the standard channel it was),
\* to an end of pipe number id ("pr" read end, "pw" write end), or to
\* open file description number id of ofds ("file").
Tty(n) == [k |-> "tty", id |-> n]
PipeEnd(kind, n) == [k |-> kind, id |-> n]
FileRef(n) == [k |-> "file", id |-> n]

InitFds == (0 :> Tty(0)) @@ (1 :> Tty(1)) @@ (2 :> Tty(2))

\* the lowest descriptor number not in use (what open and pipe return)
LowestFree(fds) ==
    CHOOSE n \in 0..Cardinality(DOMAIN fds) :
        n \notin DOMAIN fds /\ \A m \in 0..(n - 1) : m \in DOMAIN fds

\* close(fd): closing a descriptor that is not open changes nothing (EBADF)
CloseFd(fds, fd) == [x \in (DOMAIN fds) \ {fd} |-> fds[x]]

\* dup2(fd, target), fd an open descriptor
Dup2(fds, fd, target) ==
    [x \in (DOMAIN fds) \cup {target} |-> IF x = target THEN fds[fd] ELSE fds[x]]

FileNames == {"f", "g"}

\* The part of the world a redirection acts on: the calling process's
\* descriptor table, the files' contents and the open file descriptions.
World(fds, fl, od) == [fds |-> fds, files |-> fl, ofds |-> od]

\* open(name, flags, 0644): the set of possible outcomes. It may fail
\* (a missing file or directory, no permission): fd = -1, nothing changes.
\* O_TRUNC empties the file; the new description starts at offset 0.
Open(w, name, flags) ==
    LET fd == LowestFree(w.fds)
        od == [name |-> name, pos |-> 0, app |-> (flags = "O_WRONLY_CREAT_APPEND"),
               rd |-> (flags = "O_RDONLY")]
    IN  { [fd |-> -1, w |-> w] } \cup
        { [fd |-> fd,
           w |-> World(w.fds @@ (fd :> FileRef(Len(w.ofds) + 1)),
                       IF flags = "O_WRONLY_CREAT_TRUNC"
                       THEN [w.files EXCEPT ![name] = <<>>] ELSE w.files,
                       Append(w.ofds, od))] }

\* one outcome of a redirection function: its return value, the world it
\* leaves, and whether an open call failed on the way
Outcome(ret, w, openfail) == [ret |-> ret, w |-> w, openfail |-> openfail]

\* redirect_to_file(s, redirection_flags, redirection_type, cd_cmd)
RedirectToFile(s, w, redirection_flags, redirection_type, cd_cmd) ==
    LET flags == IF redirection_type = "out" /\ cd_cmd
                 THEN "O_WRONLY_CREAT_TRUNC" ELSE redirection_flags
        std_file_name == CASE redirection_type = "in" -> s.in
                           [] redirection_type = "out" -> s.out
                           [] redirection_type = "err" -> s.err
        opened == IF std_file_name = NoFile
                  THEN { [fd |-> 0, w |-> w] }
                  ELSE Open(w, std_file_name,
                            IF redirection_type = "in" THEN "O_RDONLY" ELSE flags)
        \* lines 80-87: dup2 onto the standard channel, then close(fd)
        Attach(o) ==
            LET target == CASE redirection_type = "in" -> STDIN_FILENO
                            [] redirection_type = "out" -> STDOUT_FILENO
                            [] redirection_type = "err" -> STDERR_FILENO
                fds1 == IF redirection_type = "out" /\ cd_cmd
                        THEN o.w.fds ELSE Dup2(o.w.fds, o.fd, target)
            IN  [o.w EXCEPT !.fds = CloseFd(fds1, o.fd)]
        \* lines 89-105: for cd, the standard error is redirected as well
        CdErr(w1) ==
            LET opened2 == IF s.err = NoFile
                           THEN { [fd |-> 0, w |-> w1] }
                           ELSE Open(w1, s.err, flags)
            IN  { IF o2.fd <= 0
                  THEN Outcome(-1, o2.w, o2.fd < 0)
                  ELSE Outcome(EXIT_SUCCESS,
                               [o2.w EXCEPT !.fds =
                                   CloseFd(Dup2(o2.w.fds, o2.fd, STDERR_FILENO), o2.fd)],
                               FALSE)
                  : o2 \in opened2 }
    IN  UNION { IF o.fd <= 0
                THEN { Outcome(-1, o.w, o.fd < 0) }
                ELSE IF cd_cmd THEN CdErr(Attach(o))
                ELSE { Outcome(EXIT_SUCCESS, Attach(o), FALSE) }
                : o \in opened }

\* cmd_redirection(s): the results of the three redirect_to_file calls are
\* dropped; only an invalid io_flags and a failed open of the common
\* out/err target make it return -1.
CmdRedirection(s, w) ==
    LET redirection_flags ==
            CASE s.io_flags = "IO_REGULAR" -> "O_WRONLY_CREAT_TRUNC"
              [] s.io_flags = "IO_OUT_APPEND" -> "O_WRONLY_CREAT_APPEND"
              [] s.io_flags = "IO_ERR_APPEND" -> "O_WRONLY_CREAT_APPEND"
              [] OTHER -> "invalid"
        OutErr(r1) ==
            IF s.out # NoFile /\ s.err # NoFile /\ s.out = s.err
            THEN { IF o.fd < 0
                   THEN Outcome(-1, o.w, TRUE)
                   ELSE Outcome(EXIT_SUCCESS,
                                [o.w EXCEPT !.fds =
                                    CloseFd(Dup2(Dup2(o.w.fds, o.fd, STDOUT_FILENO),
                                                 o.fd, STDERR_FILENO), o.fd)],
                                r1.openfail)
                   : o \in Open(r1.w, s.out, redirection_flags) }
            ELSE LET afterOut ==
                         IF s.out # NoFile
                         THEN { Outcome(EXIT_SUCCESS, r2.w, r1.openfail \/ r2.openfail)
                                : r2 \in RedirectToFile(s, r1.w, redirection_flags,
                                                        "out", FALSE) }
                         ELSE { Outcome(EXIT_SUCCESS, r1.w, r1.openfail) }
                 IN  UNION { IF s.err # NoFile
                             THEN { Outcome(EXIT_SUCCESS, r3.w, r2.openfail \/ r3.openfail)
                                    : r3 \in RedirectToFile(s, r2.w, redirection_flags,
                                                            "err", FALSE) }
                             ELSE { r2 }
                             : r2 \in afterOut }
    IN  IF redirection_flags = "invalid"
        THEN { Outcome(-1, w, FALSE) }
        ELSE UNION { OutErr(r1) : r1 \in RedirectToFile(s, w, "O_RDONLY", "in", FALSE) }

\* ------------------------------------------------------------ inputs
\* The programs: "ex" exits at once, "wr" writes MaxBytes bytes to its
\* standard output and exits, "rd" reads its standard input to the end and
\* exits. Each chooses its exit status.
Leaves == { Plain("cd"), Plain("exit"), Plain("ex") }

\* trees of the operators that evaluate in the calling process
SeqTrees1 == { Binary(op, a, b) : op \in SeqOps, a \in Leaves, b \in Leaves }
SeqTreesL == { Binary(op, t, b) : op \in SeqOps, t \in SeqTrees1, b \in Leaves }
SeqTreesR == { Binary(op, a, t) : op \in SeqOps, a \in Leaves, t \in SeqTrees1 }

\* cd without a parameter (s->params is NULL), and cd with redirect targets
NoParamCd == [Plain("cd") EXCEPT !.hasparam = FALSE]
CdTrees ==
    { NoParamCd,
      Binary("OP_CONDITIONAL_NZERO", NoParamCd, Plain("ex")),
      Simple("cd", NoFile, "f", NoFile, "IO_REGULAR"),
      Simple("cd", NoFile, NoFile, "g", "IO_REGULAR"),
      Simple("cd", NoFile, "f", "g", "IO_REGULAR"),
      Binary("OP_SEQUENTIAL", Simple("cd", NoFile, "f", "g", "IO_REGULAR"), Plain("ex")) }

\* assignments followed by an external command, and assignments in a branch
EnvTrees ==
    { Binary("OP_SEQUENTIAL", Plain("NAME=VALUE"),
             Binary("OP_SEQUENTIAL", Plain("NAME=OTHER"), Plain("ex"))),
      Binary("OP_SEQUENTIAL", Plain("NAME=OTHER"),
             Binary("OP_SEQUENTIAL", Plain("cd"), Plain("ex"))),
      Binary("OP_SEQUENTIAL",
             Binary("OP_PARALLEL", Plain("NAME=VALUE"), Plain("ex")), Plain("ex")),
      Binary("OP_SEQUENTIAL",
             Binary("OP_PIPE", Plain("ex"), Plain("NAME=VALUE")), Plain("ex")) }

\* a NULL sub-command and an assignment under each of these operators
OddLeaves == { NullCmd, Plain("NAME=VALUE") }
OddTrees == { Binary(op, a, Plain("ex")) : op \in SeqOps, a \in OddLeaves }

\* trees of the operators that fork, alone and as the left operand
ForkTrees1 == { Binary(op, a, b) : op \in ForkOps, a \in Leaves, b \in Leaves }
ForkTreesL == { Binary("OP_SEQUENTIAL", t, Plain("cd")) : t \in ForkTrees1 }

\* a pipe from the writer to the reader
WrRd == Binary("OP_PIPE", Plain("wr"), Plain("rd"))

\* pipes whose branches are the writer, the reader or exit
PipeTrees ==
    { Binary("OP_PIPE", a, b) : a \in {Plain("wr"), Plain("exit")},
                                b \in {Plain("rd"), Plain("exit")} }
    \cup { Binary("OP_SEQUENTIAL", WrRd, Plain("exit")) }

\* a pipe followed by a writer
WriterTrees ==
    { WrRd,
      Binary("OP_SEQUENTIAL", Binary("OP_PIPE", Plain("exit"), Plain("rd")), Plain("wr")) }

\* external commands alone and under PARALLEL and PIPE, and each of these as
\* the left operand of OP_CONDITIONAL_ZERO
SignalTrees ==
    LET forks == { Binary(op, Plain("ex"), Plain("ex")) : op \in ForkOps }
    IN  { Plain("ex") } \cup forks
        \cup { Binary("OP_CONDITIONAL_ZERO", t, Plain("exit")) : t \in forks \cup {Plain("ex")} }

\* external leaves with redirect targets
RedirTrees ==
    { Simple("ex", "f", NoFile, NoFile, "IO_REGULAR"),
      Simple("wr", NoFile, "f", NoFile, "IO_REGULAR"),
      Simple("ex", NoFile, NoFile, "g", "IO_ERR_APPEND"),
      Simple("wr", NoFile, "f", "f", "IO_OUT_APPEND"),
      Simple("wr", NoFile, "f", "g", "IO_REGULAR"),
      Simple("wr", NoFile, "f", "g", "IO_OUT_APPEND"),
      Simple("wr", NoFile, "f", "g", "IO_ERR_APPEND"),
      Simple("rd", "f", NoFile, NoFile, "IO_REGULAR") }

Trees == Leaves \cup SeqTrees1 \cup SeqTreesL \cup SeqTreesR \cup OddTrees
         \cup ForkTrees1 \cup ForkTreesL \cup {WrRd} \cup RedirTrees
         \cup CdTrees \cup EnvTrees

\* ------------------------------------------------------------ state
VARIABLES
    tree,     \* the command tree handed to parse_command (never changes)
    procs,    \* the processes, by pid (1 is the shell calling parse_command)
    pipes,    \* the pipes created so far: buffer and history
    files,    \* the content of each file
    ofds,     \* the open file descriptions created so far
    evals,    \* per node, how many times its evaluation was started
    faults    \* the number of system calls that have failed for lack of resources

vars == <<tree, procs, pipes, files, ofds, evals, faults>>

EmptyFn == [x \in {} |-> 0]

Frame(fn, node, pc) ==
    [fn |-> fn, node |-> node, pc |-> pc, pid1 |-> 0, pid2 |-> 0,
     rfd |-> 0, wfd |-> 0, pipe |-> 0]

NoProg == [verb |-> "", node |-> <<>>, nw |-> 0, seen |-> <<>>, eof |-> FALSE]
NoStatus == [exited |-> FALSE, code |-> 0]

\* what a process knows about the children it created for a node
Orch(pid1, pid2, fail, w2, code) ==
    [pid1 |-> pid1, pid2 |-> pid2, fail |-> fail, w2 |-> w2, code |-> code]

\* pre, post: the working directory, the environment and the descriptor
\* table of the process when its parse_command call for a node started and
\* when it returned; log: the nodes in the order their evaluation started
Shell ==
    [st |-> "run", parent |-> 0, kind |-> "shell", bnode |-> <<>>, base |-> 0,
     stack |-> << Frame("parse_command", <<>>, "start") >>,
     ctl |-> "call", val |-> 0, fds |-> InitFds, status |-> NoStatus,
     cwd |-> InitCwd, env |-> InitEnv,
     prog |-> NoProg, openfail |-> FALSE,
     res |-> EmptyFn, cnt |-> EmptyFn, orch |-> EmptyFn,
     pre |-> EmptyFn, post |-> EmptyFn, log |-> << >>]

InitOf(trees) ==
    /\ tree \in trees
    /\ procs = << Shell >>
    /\ pipes = << >>
    /\ files = [n \in FileNames |-> << >>]
    /\ ofds = << >>
    /\ evals = [n \in Paths(tree) |-> 0]
    /\ faults = 0

Init == InitOf(Trees)

\* ------------------------------------------------------------ helpers
Pids == DOMAIN procs
Live(pr) == pr.st \in {"run", "prog", "returned"}
Top(pr) == pr.stack[Len(pr.stack)]
Pop(stk) == SubSeq(stk, 1, Len(stk) - 1)
SetTop(stk, f) == [stk EXCEPT ![Len(stk)] = f]
Push(stk, f) == Append(stk, f)

\* process p runs C code and its innermost call is fn, at pc
At(p, fn, pc) ==
    /\ p \in Pids
    /\ procs[p].st = "run"
    /\ Top(procs[p]).fn = fn
    /\ Top(procs[p]).pc = pc

Calling(p) == procs[p].ctl = "call"
Returned(p) == procs[p].ctl = "ret"

\* the pcs of a parse_command frame at which the value of the call it
\* waits for is returned as it is: "return parse_simple(...)" of line 509,
\* and "break; return ret_op_status" of lines 522-555
TailPcs == {"leaf", "cmd2", "par", "pipe"}

\* the stack after the innermost call has returned: its frame is popped, and
\* so is every parse_command frame that only hands the value on
RECURSIVE Unwind(_)
Unwind(stk) ==
    IF stk # << >> /\ stk[Len(stk)].fn = "parse_command" /\ stk[Len(stk)].pc \in TailPcs
    THEN Unwind(Pop(stk))
    ELSE stk

\* the nodes whose parse_command call returns when the innermost call does
Finished(stk) ==
    { stk[i].node : i \in { j \in (Len(Unwind(Pop(stk))) + 1)..Len(stk) :
                               stk[j].fn = "parse_command" } }

\* what a process's builtins and redirections act on
Snapshot(pr) == [cwd |-> pr.cwd, env |-> pr.env, fds |-> pr.fds, openfail |-> pr.openfail]

\* the innermost call returns v; the result of every parse_command call
\* that returns with it is recorded as the result of its node
Return(pr, v) ==
    LET stk == Unwind(Pop(pr.stack))
        done == Finished(pr.stack)
    IN  [pr EXCEPT !.stack = stk, !.ctl = "ret", !.val = v,
                   !.st = IF stk = << >> THEN "returned" ELSE "run",
                   !.res = [n \in done |-> v] @@ pr.res,
                   !.post = [n \in done |-> Snapshot(pr)] @@ pr.post]

\* the value a function declared bool returns for the int expression v
CBool(v) == IF v # 0 THEN 1 ELSE 0

\* exit(n): the process ends; the low 8 bits of n are its exit status
Exit(pr, n) ==
    [pr EXCEPT !.st = "zombie", !.status = [exited |-> TRUE, code |-> n % 256],
               !.stack = << >>, !.fds = EmptyFn, !.ctl = "done", !.val = 0]

\* termination by a signal: no exit status
Signaled(pr) ==
    [pr EXCEPT !.st = "zombie", !.status = [exited |-> FALSE, code |-> 0],
               !.stack = << >>, !.fds = EmptyFn, !.ctl = "done", !.val = 0]

WIFEXITED(status) == status.exited
WEXITSTATUS(status) == status.code

\* fork() in process p: the child is a copy of p whose stack is stk
Child(p, kind, node, stk) ==
    [procs[p] EXCEPT !.parent = p, !.kind = kind, !.bnode = node,
                     !.base = Len(procs[p].stack), !.stack = stk,
                     !.ctl = "call", !.val = 0, !.orch = EmptyFn,
                     !.openfail = FALSE]

NewPid == Len(procs) + 1

SetOrch(pr, node, o) == [pr EXCEPT !.orch = (node :> o) @@ pr.orch]

\* how many times process pr, or the ancestors it was copied from, started
\* to evaluate node n
Cnt(pr, n) == IF n \in DOMAIN pr.cnt THEN pr.cnt[n] ELSE 0

\* a system call fails for lack of resources (fork, pipe, setenv) or is
\* interrupted (waitpid): at most MaxFaults times in a run
Fault == faults < MaxFaults /\ faults' = faults + 1
NoFault == faults' = faults

\* ------------------------------------------------------------ parse_command
\* parse_command(c, level, father), lines 501-552: the dispatch on c->op
ParseCommand(p) ==
    /\ At(p, "parse_command", "start")
    /\ LET pr == procs[p]
           f == Top(pr)
           c == NodeAt(tree, f.node)
           pr1 == [pr EXCEPT !.cnt = (f.node :> (Cnt(pr, f.node) + 1)) @@ pr.cnt,
                             !.pre = (f.node :> Snapshot(pr)) @@ pr.pre,
                             !.log = Append(pr.log, f.node)]
           call(pc, g) == [pr1 EXCEPT !.stack =
                              Push(SetTop(pr.stack, [f EXCEPT !.pc = pc]), g)]
       IN  /\ evals' = [evals EXCEPT ![f.node] = @ + 1]
           /\ procs' = [procs EXCEPT ![p] =
                 CASE c.op = "NULL" -> Return(pr1, SHELL_EXIT)
                   [] c.op = "OP_NONE" ->
                        call("leaf", Frame("parse_simple", f.node, "start"))
                   [] c.op \in SeqOps ->
                        call("cmd1", Frame("parse_command", f.node \o <<1>>, "start"))
                   [] c.op = "OP_PARALLEL" ->
                        call("par", Frame("run_in_parallel", f.node, "fork1"))
                   [] c.op = "OP_PIPE" ->
                        call("pipe", Frame("run_on_pipe", f.node, "pipe"))
                   [] OTHER -> Return(pr1, SHELL_EXIT)]
    /\ UNCHANGED <<tree, pipes, files, ofds, faults>>

\* the node whose parse_command frame is on top of p's stack
TopOp(p) == NodeAt(tree, Top(procs[p]).node).op

CallCmd2(pr) ==
    LET f == Top(pr)
    IN  [pr EXCEPT !.ctl = "call", !.stack =
            Push(SetTop(pr.stack, [f EXCEPT !.pc = "cmd2"]),
                 Frame("parse_command", f.node \o <<2>>, "start"))]

\* case OP_SEQUENTIAL, lines 516-524, after cmd1 has returned
Sequential(p) ==
    /\ At(p, "parse_command", "cmd1")
    /\ Returned(p)
    /\ TopOp(p) = "OP_SEQUENTIAL"
    /\ procs' = [procs EXCEPT ![p] =
          IF procs[p].val < 0 THEN Return(procs[p], procs[p].val)
          ELSE CallCmd2(procs[p])]
    /\ UNCHANGED <<tree, pipes, files, ofds, evals, faults>>

\* ConditionalNZero with the test of line 533 inverted (== for !=)
ConditionalNZeroInverted(p) ==
    /\ At(p, "parse_command", "cmd1")
    /\ Returned(p)
    /\ TopOp(p) = "OP_CONDITIONAL_NZERO"
    /\ procs' = [procs EXCEPT ![p] =
          IF procs[p].val = 0 THEN CallCmd2(procs[p])
          ELSE Return(procs[p], procs[p].val)]
    /\ UNCHANGED <<tree, pipes, files, ofds, evals, faults>>

\* case OP_CONDITIONAL_NZERO, lines 530-536, after cmd1 has returned
ConditionalNZero(p) ==
    /\ At(p, "parse_command", "cmd1")
    /\ Returned(p)
    /\ TopOp(p) = "OP_CONDITIONAL_NZERO"
    /\ procs' = [procs EXCEPT ![p] =
          IF procs[p].val # 0 THEN CallCmd2(procs[p])
          ELSE Return(procs[p], procs[p].val)]
    /\ UNCHANGED <<tree, pipes, files, ofds, evals, faults>>

\* case OP_CONDITIONAL_ZERO, lines 537-543, after cmd1 has returned
ConditionalZero(p) ==
    /\ At(p, "parse_command", "cmd1")
    /\ Returned(p)
    /\ TopOp(p) = "OP_CONDITIONAL_ZERO"
    /\ procs' = [procs EXCEPT ![p] =
          IF procs[p].val = 0 THEN CallCmd2(procs[p])
          ELSE Return(procs[p], procs[p].val)]
    /\ UNCHANGED <<tree, pipes, files, ofds, evals, faults>>

\* ------------------------------------------------------------ parse_simple
TopCmd(p) == NodeAt(tree, Top(procs[p]).node)

GetOrch(pr, node) ==
    IF node \in DOMAIN pr.orch THEN pr.orch[node] ELSE Orch(0, 0, FALSE, "none", 0)

\* a fork or wait call made for node failed
Failed(pr, node) == SetOrch(pr, node, [GetOrch(pr, node) EXCEPT !.fail = TRUE])

MyWorld(p) == World(procs[p].fds, files, ofds)

\* lines 218-220: the verb is cd; redirect_to_file(s, ..., "out", true),
\* whose result is dropped
BuiltinCdRedirect(p) ==
    /\ At(p, "parse_simple", "start")
    /\ TopCmd(p).verb = "cd"
    /\ \E o \in RedirectToFile(TopCmd(p), MyWorld(p), "O_WRONLY_CREAT_TRUNC", "out", TRUE) :
          /\ procs' = [procs EXCEPT ![p].fds = o.w.fds,
                                    ![p].openfail = o.openfail,
                                    ![p].stack = SetTop(@, [Top(procs[p]) EXCEPT !.pc = "chdir"])]
          /\ files' = o.w.files
          /\ ofds' = o.w.ofds
    /\ UNCHANGED <<tree, pipes, evals, faults>>

\* ShellCd in a child that shares its working directory with its parent
\* (as after vfork or in a thread): chdir in the child moves the parent too
ShellCdShared(p) ==
    /\ At(p, "parse_simple", "chdir")
    /\ \E ok \in BOOLEAN :
          /\ ok => TopCmd(p).hasparam
          /\ procs' = [q \in Pids |->
                IF q = p
                THEN IF ok THEN Return([procs[p] EXCEPT !.cwd = TargetDir(TopCmd(p))], 0)
                     ELSE Return(procs[p], -1)
                ELSE IF ok /\ q = procs[p].parent
                     THEN [procs[q] EXCEPT !.cwd = TargetDir(TopCmd(p))]
                     ELSE procs[q]]
    /\ UNCHANGED <<tree, pipes, files, ofds, evals, faults>>

\* ShellCd without the test of chdir's result: the leaf yields 0 always
ShellCdUnchecked(p) ==
    /\ At(p, "parse_simple", "chdir")
    /\ \E ok \in BOOLEAN :
          /\ ok => TopCmd(p).hasparam
          /\ procs' = [procs EXCEPT ![p] =
                IF ok THEN Return([procs[p] EXCEPT !.cwd = TargetDir(TopCmd(p))], 0)
                ELSE Return(procs[p], 0)]
    /\ UNCHANGED <<tree, pipes, files, ofds, evals, faults>>

\* shell_cd(s->params), lines 176-194, and the return of line 226: chdir
\* fails when the directory does not exist
ShellCd(p) ==
    /\ At(p, "parse_simple", "chdir")
    /\ \E ok \in BOOLEAN :
          /\ ok => TopCmd(p).hasparam
          /\ procs' = [procs EXCEPT ![p] =
                IF ok THEN Return([procs[p] EXCEPT !.cwd = TargetDir(TopCmd(p))], 0)
                ELSE Return(procs[p], -1)]
    /\ UNCHANGED <<tree, pipes, files, ofds, evals, faults>>

\* shell_exit(), lines 199-203 and 227-232
ShellExit(p) ==
    /\ At(p, "parse_simple", "start")
    /\ TopCmd(p).verb \in {"exit", "quit"}
    /\ procs' = [procs EXCEPT ![p] = Return(procs[p], SHELL_EXIT)]
    /\ UNCHANGED <<tree, pipes, files, ofds, evals, faults>>

\* EnvAssign with setenv(src, dst, 0): a variable that is set is kept
EnvAssignNoOverwrite(p) ==
    /\ At(p, "parse_simple", "start")
    /\ IsAssign(TopCmd(p).verb)
    /\ TopCmd(p).hasvalue
    /\ \E ret_assign \in {0, -1} :
          /\ IF ret_assign # 0 THEN Fault ELSE NoFault
          /\ procs' = [procs EXCEPT ![p] =
                IF ret_assign # 0 THEN Return(procs[p], -1)
                ELSE Return([procs[p] EXCEPT !.env =
                                IF @ = InitEnv THEN AssignValue(TopCmd(p).verb) ELSE @], 0)]
    /\ UNCHANGED <<tree, pipes, files, ofds, evals>>

\* lines 236-262: NAME=VALUE; setenv may fail
EnvAssign(p) ==
    /\ At(p, "parse_simple", "start")
    /\ IsAssign(TopCmd(p).verb)
    /\ TopCmd(p).hasvalue
    /\ \E ret_assign \in {0, -1} :
          /\ IF ret_assign # 0 THEN Fault ELSE NoFault
          /\ procs' = [procs EXCEPT ![p] =
                IF ret_assign # 0 THEN Return(procs[p], -1)
                ELSE Return([procs[p] EXCEPT !.env = AssignValue(TopCmd(p).verb)], 0)]
    /\ UNCHANGED <<tree, pipes, files, ofds, evals>>

IsExternal(s) ==
    /\ s.verb \notin {"cd", "exit", "quit"}
    /\ ~(IsAssign(s.verb) /\ s.hasvalue)

\* lines 269-274: fork() for an external command
ExternalFork(p) ==
    /\ At(p, "parse_simple", "start")
    /\ IsExternal(TopCmd(p))
    /\ LET pr == procs[p]
           f == Top(pr)
       IN  \/ /\ Fault
              /\ procs' = [procs EXCEPT ![p] = Return(Failed(pr, f.node), -1)]
           \/ /\ NoFault
              /\ procs' = Append(
                    [procs EXCEPT ![p] =
                        SetOrch([pr EXCEPT !.stack =
                                    SetTop(pr.stack, [f EXCEPT !.pc = "wait", !.pid1 = NewPid])],
                                f.node, Orch(NewPid, 0, FALSE, "none", 0))],
                    Child(p, "leaf", f.node, SetTop(pr.stack, [f EXCEPT !.pc = "child"])))
    /\ UNCHANGED <<tree, pipes, files, ofds, evals>>

\* lines 276-283, in the child: cmd_redirection; on a negative result the
\* child returns -1 from parse_simple
ChildRedirect(p) ==
    /\ At(p, "parse_simple", "child")
    /\ \E o \in CmdRedirection(TopCmd(p), MyWorld(p)) :
          /\ LET pr == [procs[p] EXCEPT !.fds = o.w.fds, !.openfail = o.openfail]
             IN  procs' = [procs EXCEPT ![p] =
                    IF o.ret < 0 THEN Return(pr, -1)
                    ELSE [pr EXCEPT !.stack = SetTop(@, [Top(pr) EXCEPT !.pc = "exec"])]]
          /\ files' = o.w.files
          /\ ofds' = o.w.ofds
    /\ UNCHANGED <<tree, pipes, evals, faults>>

\* lines 285-295, in the child: execvp loads the program, or fails and the
\* child calls exit(exec_ret) with exec_ret = -1
ChildExec(p) ==
    /\ At(p, "parse_simple", "exec")
    /\ LET pr == procs[p]
       IN  \/ procs' = [procs EXCEPT ![p] =
                 [pr EXCEPT !.st = "prog", !.stack = << >>, !.ctl = "prog",
                            !.prog = [NoProg EXCEPT !.verb = TopCmd(p).verb,
                                                    !.node = Top(pr).node]]]
           \/ procs' = [procs EXCEPT ![p] = Exit(pr, -1)]
    /\ UNCHANGED <<tree, pipes, files, ofds, evals, faults>>

\* ExternalWait that reports a child killed by a signal as a failure
\* (a nonzero value in place of the final EXIT_SUCCESS)
ExternalWaitSignalFails(p) ==
    /\ At(p, "parse_simple", "wait")
    /\ LET pr == procs[p]
           f == Top(pr)
           status == procs[f.pid1].status
       IN  \/ /\ Fault
              /\ procs' = [procs EXCEPT ![p] = Return(Failed(pr, f.node), -1)]
           \/ /\ NoFault
              /\ procs[f.pid1].st = "zombie"
              /\ procs' = [procs EXCEPT
                    ![f.pid1].st = "reaped",
                    ![p] = Return(SetOrch(pr, f.node,
                                     [GetOrch(pr, f.node) EXCEPT
                                         !.w2 = IF WIFEXITED(status) THEN "exited" ELSE "signaled",
                                         !.code = status.code]),
                                  IF WIFEXITED(status) THEN WEXITSTATUS(status)
                                  ELSE 1)]
    /\ UNCHANGED <<tree, pipes, files, ofds, evals>>

\* lines 298-320, in the parent: waitpid(curr_pid, &status, 0)
ExternalWait(p) ==
    /\ At(p, "parse_simple", "wait")
    /\ LET pr == procs[p]
           f == Top(pr)
           status == procs[f.pid1].status
       IN  \/ /\ Fault
              /\ procs' = [procs EXCEPT ![p] = Return(Failed(pr, f.node), -1)]
           \/ /\ NoFault
              /\ procs[f.pid1].st = "zombie"
              /\ procs' = [procs EXCEPT
                    ![f.pid1].st = "reaped",
                    ![p] = Return(SetOrch(pr, f.node,
                                     [GetOrch(pr, f.node) EXCEPT
                                         !.w2 = IF WIFEXITED(status) THEN "exited" ELSE "signaled",
                                         !.code = status.code]),
                                  IF WIFEXITED(status) THEN WEXITSTATUS(status)
                                  ELSE EXIT_SUCCESS)]
    /\ UNCHANGED <<tree, pipes, files, ofds, evals>>

\* ------------------------------------------------------------ programs
\* some live process holds the given end of pipe k
Held(kind, k) ==
    \E q \in Pids : /\ Live(procs[q])
                    /\ \E fd \in DOMAIN procs[q].fds : procs[q].fds[fd] = PipeEnd(kind, k)

\* write(2) of byte b through open file description od to content
FileWrite(content, od, b) ==
    IF od.app \/ od.pos >= Len(content)
    THEN content \o [i \in 1..(IF od.app THEN 0 ELSE od.pos - Len(content)) |-> 0] \o <<b>>
    ELSE [content EXCEPT ![od.pos + 1] = b]

\* the writer program: write(1, &b, 1) for b = 1..MaxBytes
ProgWrite(p) ==
    /\ p \in Pids
    /\ procs[p].st = "prog"
    /\ procs[p].prog.verb = "wr"
    /\ procs[p].prog.nw < MaxBytes
    /\ LET pr == procs[p]
           b == pr.prog.nw + 1
           out == IF STDOUT_FILENO \in DOMAIN pr.fds THEN pr.fds[STDOUT_FILENO]
                  ELSE [k |-> "closed", id |-> 0]
           wrote == [pr EXCEPT !.prog.nw = b]
       IN  CASE out.k = "pw" ->
                  IF ~Held("pr", out.id)
                  THEN \* SIGPIPE
                       /\ procs' = [procs EXCEPT ![p] = Signaled(pr)]
                       /\ UNCHANGED <<pipes, files, ofds>>
                  ELSE /\ Len(pipes[out.id].buf) < PipeCap
                       /\ procs' = [procs EXCEPT ![p] = wrote]
                       /\ pipes' = [pipes EXCEPT
                             ![out.id].buf = Append(@, b),
                             ![out.id].fromA =
                                 IF pr.prog.node = pipes[out.id].node \o <<1>>
                                 THEN Append(@, b) ELSE @]
                       /\ UNCHANGED <<files, ofds>>
             [] out.k = "file" /\ ~ofds[out.id].rd ->
                  LET od == ofds[out.id]
                      content == FileWrite(files[od.name], od, b)
                  IN  /\ procs' = [procs EXCEPT ![p] = wrote]
                      /\ files' = [files EXCEPT ![od.name] = content]
                      /\ ofds' = [ofds EXCEPT ![out.id].pos =
                                     IF od.app THEN Len(content) ELSE od.pos + 1]
                      /\ UNCHANGED pipes
             [] OTHER ->
                  /\ procs' = [procs EXCEPT ![p] = wrote]
                  /\ UNCHANGED <<pipes, files, ofds>>
    /\ UNCHANGED <<tree, evals, faults>>

\* the reader program: read(0, &b, 1) until it returns 0
ProgRead(p) ==
    /\ p \in Pids
    /\ procs[p].st = "prog"
    /\ procs[p].prog.verb = "rd"
    /\ ~procs[p].prog.eof
    /\ LET pr == procs[p]
           in == IF STDIN_FILENO \in DOMAIN pr.fds THEN pr.fds[STDIN_FILENO]
                 ELSE [k |-> "closed", id |-> 0]
           ateof == [pr EXCEPT !.prog.eof = TRUE]
       IN  CASE in.k = "pr" ->
                  IF pipes[in.id].buf # << >>
                  THEN /\ procs' = [procs EXCEPT ![p].prog.seen =
                                       Append(@, Head(pipes[in.id].buf))]
                       /\ pipes' = [pipes EXCEPT ![in.id].buf = Tail(@)]
                       /\ UNCHANGED <<files, ofds>>
                  ELSE /\ ~Held("pw", in.id)
                       /\ procs' = [procs EXCEPT ![p] = ateof]
                       /\ UNCHANGED <<pipes, files, ofds>>
             [] in.k = "file" /\ ofds[in.id].rd /\ ofds[in.id].pos < Len(files[ofds[in.id].name]) ->
                  /\ procs' = [procs EXCEPT ![p].prog.seen =
                                  Append(@, files[ofds[in.id].name][ofds[in.id].pos + 1])]
                  /\ ofds' = [ofds EXCEPT ![in.id].pos = @ + 1]
                  /\ UNCHANGED <<pipes, files>>
             [] OTHER ->
                  /\ procs' = [procs EXCEPT ![p] = ateof]
                  /\ UNCHANGED <<pipes, files, ofds>>
    /\ UNCHANGED <<tree, evals, faults>>

\* a program is done when the writer has written its bytes and the reader
\* has seen the end of its input
ProgDone(pg) ==
    /\ pg.verb = "wr" => pg.nw = MaxBytes
    /\ pg.verb = "rd" => pg.eof

\* the program calls exit(n)
ProgExit(p) ==
    /\ p \in Pids
    /\ procs[p].st = "prog"
    /\ ProgDone(procs[p].prog)
    /\ \E n \in 0..MaxStatus : procs' = [procs EXCEPT ![p] = Exit(procs[p], n)]
    /\ UNCHANGED <<tree, pipes, files, ofds, evals, faults>>

\* the program is terminated by a signal
ProgSignal(p) ==
    /\ p \in Pids
    /\ procs[p].st = "prog"
    /\ procs' = [procs EXCEPT ![p] = Signaled(procs[p])]
    /\ UNCHANGED <<tree, pipes, files, ofds, evals, faults>>

\* a branch process of PARALLEL or PIPE is terminated by a signal while it
\* evaluates its branch
BranchSignal(p) ==
    /\ p \in Pids
    /\ procs[p].st = "run"
    /\ procs[p].kind = "branch"
    /\ procs' = [procs EXCEPT ![p] = Signaled(procs[p])]
    /\ UNCHANGED <<tree, pipes, files, ofds, evals, faults>>

\* ------------------------------------------------------------ fork and wait
\* the frame of the forked child of a branch: it goes on to call
\* parse_command(cmd, level + 1, father) for its branch (1 or 2)
BranchStack(pr, pc, branch) ==
    LET f == Top(pr)
    IN  IF pc = "child"
        THEN Push(SetTop(pr.stack, [f EXCEPT !.pc = "child"]),
                  Frame("parse_command", f.node \o <<branch>>, "start"))
        ELSE SetTop(pr.stack, [f EXCEPT !.pc = pc])

\* fork() of the first child in frame fn at pc "fork1": -1, or the child
\* is created at childpc and the parent goes on at "fork2"
Fork1(p, fn, childpc) ==
    /\ At(p, fn, "fork1")
    /\ LET pr == procs[p]
           f == Top(pr)
       IN  \/ /\ Fault
              /\ procs' = [procs EXCEPT ![p] = Return(Failed(pr, f.node), CBool(0))]
           \/ /\ NoFault
              /\ procs' = Append(
                 [procs EXCEPT ![p] =
                     SetOrch([pr EXCEPT !.stack =
                                 SetTop(pr.stack, [f EXCEPT !.pc = "fork2", !.pid1 = NewPid])],
                             f.node, [GetOrch(pr, f.node) EXCEPT !.pid1 = NewPid])],
                 Child(p, "branch", f.node \o <<1>>, BranchStack(pr, childpc, 1)))

\* fork() of the second child: -1, or the parent goes on at parentpc
Fork2(p, fn, childpc, parentpc) ==
    /\ At(p, fn, "fork2")
    /\ LET pr == procs[p]
           f == Top(pr)
       IN  \/ /\ Fault
              /\ procs' = [procs EXCEPT ![p] = Return(Failed(pr, f.node), CBool(0))]
           \/ /\ NoFault
              /\ procs' = Append(
                 [procs EXCEPT ![p] =
                     SetOrch([pr EXCEPT !.stack =
                                 SetTop(pr.stack, [f EXCEPT !.pc = parentpc, !.pid2 = NewPid])],
                             f.node, [GetOrch(pr, f.node) EXCEPT !.pid2 = NewPid])],
                 Child(p, "branch", f.node \o <<2>>, BranchStack(pr, childpc, 2)))

\* in a forked child, after parse_command has returned ret_exec: a negative
\* ret_exec makes the child return false, any other is its exit status
BranchDone(p, fn) ==
    /\ At(p, fn, "child")
    /\ Returned(p)
    /\ procs' = [procs EXCEPT ![p] =
          IF procs[p].val < 0 THEN Return(procs[p], CBool(0))
          ELSE Exit(procs[p], procs[p].val)]

\* Wait1 with waitpid(curr_pid1, &status_pid1, WNOHANG): it does not block
\* until the first child has terminated
Wait1NoHang(p, fn) ==
    /\ At(p, fn, "wait1")
    /\ LET pr == procs[p]
           f == Top(pr)
       IN  \/ /\ Fault
              /\ procs' = [procs EXCEPT ![p] = Return(Failed(pr, f.node), CBool(-1))]
           \/ /\ NoFault
              /\ procs' = [procs EXCEPT
                    ![f.pid1].st = IF @ = "zombie" THEN "reaped" ELSE @,
                    ![p].stack = SetTop(pr.stack, [f EXCEPT !.pc = "wait2"])]

\* waitpid(curr_pid1, &status_pid1, 0): -1 ("return -1"), or the first
\* child, terminated, is reaped
Wait1(p, fn) ==
    /\ At(p, fn, "wait1")
    /\ LET pr == procs[p]
           f == Top(pr)
       IN  \/ /\ Fault
              /\ procs' = [procs EXCEPT ![p] = Return(Failed(pr, f.node), CBool(-1))]
           \/ /\ NoFault
              /\ procs[f.pid1].st = "zombie"
              /\ procs' = [procs EXCEPT
                    ![f.pid1].st = "reaped",
                    ![p].stack = SetTop(pr.stack, [f EXCEPT !.pc = "wait2"])]

\* waitpid(curr_pid2, &status_pid2, 0) and the returns that follow it
Wait2(p, fn) ==
    /\ At(p, fn, "wait2")
    /\ LET pr == procs[p]
           f == Top(pr)
           status == procs[f.pid2].status
       IN  \/ /\ Fault
              /\ procs' = [procs EXCEPT ![p] = Return(Failed(pr, f.node), CBool(-1))]
           \/ /\ NoFault
              /\ procs[f.pid2].st = "zombie"
              /\ procs' = [procs EXCEPT
                    ![f.pid2].st = "reaped",
                    ![p] = Return(SetOrch(pr, f.node,
                                     [GetOrch(pr, f.node) EXCEPT
                                         !.w2 = IF WIFEXITED(status) THEN "exited" ELSE "signaled",
                                         !.code = status.code]),
                                  CBool(IF WIFEXITED(status) THEN WEXITSTATUS(status)
                                        ELSE EXIT_SUCCESS))]

\* ------------------------------------------------------------ run_in_parallel
\* lines 332-352
ParFork1(p) ==
    /\ Fork1(p, "run_in_parallel", "child")
    /\ UNCHANGED <<tree, pipes, files, ofds, evals>>

\* lines 355-370
ParFork2(p) ==
    /\ Fork2(p, "run_in_parallel", "child", "wait1")
    /\ UNCHANGED <<tree, pipes, files, ofds, evals>>

\* lines 341-346 and 364-369, in a child
ParChild(p) ==
    /\ BranchDone(p, "run_in_parallel")
    /\ UNCHANGED <<tree, pipes, files, ofds, evals, faults>>

\* lines 374-378
ParWait1(p) ==
    /\ Wait1(p, "run_in_parallel")
    /\ UNCHANGED <<tree, pipes, files, ofds, evals>>

\* lines 380-391
ParWait2(p) ==
    /\ Wait2(p, "run_in_parallel")
    /\ UNCHANGED <<tree, pipes, files, ofds, evals>>

\* ------------------------------------------------------------ run_on_pipe
\* lines 401-405: pipe(pipefd) takes the two lowest free descriptors, or
\* fails
PipeCreate(p) ==
    /\ At(p, "run_on_pipe", "pipe")
    /\ LET pr == procs[p]
           f == Top(pr)
           r == LowestFree(pr.fds)
           w == LowestFree(pr.fds @@ (r :> Tty(0)))
           k == Len(pipes) + 1
       IN  \/ /\ Fault
              /\ procs' = [procs EXCEPT ![p] = Return(pr, CBool(0))]
              /\ UNCHANGED pipes
           \/ /\ NoFault
              /\ procs' = [procs EXCEPT ![p] =
                    [pr EXCEPT !.fds = pr.fds @@ (r :> PipeEnd("pr", k))
                                              @@ (w :> PipeEnd("pw", k)),
                               !.stack = SetTop(pr.stack,
                                  [f EXCEPT !.pc = "fork1", !.rfd = r, !.wfd = w, !.pipe = k])]]
              /\ pipes' = Append(pipes, [buf |-> << >>, node |-> f.node, fromA |-> << >>])
    /\ UNCHANGED <<tree, files, ofds, evals>>

\* lines 408-413 and 436-439
PipeFork1(p) ==
    /\ Fork1(p, "run_on_pipe", "setup1")
    /\ UNCHANGED <<tree, pipes, files, ofds, evals>>

\* lines 442-447
PipeFork2(p) ==
    /\ Fork2(p, "run_on_pipe", "setup2", "close")
    /\ UNCHANGED <<tree, pipes, files, ofds, evals>>

\* lines 417-428, in the first child: close(pipefd[READ]);
\* dup2(pipefd[WRITE], STDOUT_FILENO); close(pipefd[WRITE]); then the call
\* of parse_command(cmd1). dup2 of an open descriptor does not fail.
PipeChild1Setup(p) ==
    /\ At(p, "run_on_pipe", "setup1")
    /\ LET pr == procs[p]
           f == Top(pr)
       IN  procs' = [procs EXCEPT ![p] =
              [pr EXCEPT !.fds = CloseFd(Dup2(CloseFd(pr.fds, f.rfd), f.wfd, STDOUT_FILENO),
                                         f.wfd),
                         !.stack = BranchStack(pr, "child", 1)]]
    /\ UNCHANGED <<tree, pipes, files, ofds, evals, faults>>

\* lines 451-462, in the second child: close(pipefd[WRITE]);
\* dup2(pipefd[READ], STDIN_FILENO); close(pipefd[READ]); then the call of
\* parse_command(cmd2)
PipeChild2Setup(p) ==
    /\ At(p, "run_on_pipe", "setup2")
    /\ LET pr == procs[p]
           f == Top(pr)
       IN  procs' = [procs EXCEPT ![p] =
              [pr EXCEPT !.fds = CloseFd(Dup2(CloseFd(pr.fds, f.wfd), f.rfd, STDIN_FILENO),
                                         f.rfd),
                         !.stack = BranchStack(pr, "child", 2)]]
    /\ UNCHANGED <<tree, pipes, files, ofds, evals, faults>>

\* lines 428-433 and 462-467, in a child
PipeChild(p) ==
    /\ BranchDone(p, "run_on_pipe")
    /\ UNCHANGED <<tree, pipes, files, ofds, evals, faults>>

\* PipeClose without close(pipefd[WRITE]): the parent keeps the write end
PipeCloseReadOnly(p) ==
    /\ At(p, "run_on_pipe", "close")
    /\ LET pr == procs[p]
           f == Top(pr)
       IN  procs' = [procs EXCEPT ![p] =
              [pr EXCEPT !.fds = CloseFd(pr.fds, f.rfd),
                         !.stack = SetTop(pr.stack, [f EXCEPT !.pc = "wait1"])]]
    /\ UNCHANGED <<tree, pipes, files, ofds, evals, faults>>

\* lines 471-472, in the parent: close(pipefd[WRITE]); close(pipefd[READ])
PipeClose(p) ==
    /\ At(p, "run_on_pipe", "close")
    /\ LET pr == procs[p]
           f == Top(pr)
       IN  procs' = [procs EXCEPT ![p] =
              [pr EXCEPT !.fds = CloseFd(CloseFd(pr.fds, f.wfd), f.rfd),
                         !.stack = SetTop(pr.stack, [f EXCEPT !.pc = "wait1"])]]
    /\ UNCHANGED <<tree, pipes, files, ofds, evals, faults>>

\* lines 476-479
PipeWait1(p) ==
    /\ Wait1(p, "run_on_pipe")
    /\ UNCHANGED <<tree, pipes, files, ofds, evals>>

\* lines 481-495 (the descriptors closed again at lines 491-492 are closed
\* already)
PipeWait2(p) ==
    /\ Wait2(p, "run_on_pipe")
    /\ UNCHANGED <<tree, pipes, files, ofds, evals>>

\* ------------------------------------------------------------ specification
Next ==
    \/ \E p \in Pids : ParseCommand(p)
    \/ \E p \in Pids : Sequential(p)
    \/ \E p \in Pids : ConditionalNZero(p)
    \/ \E p \in Pids : ConditionalZero(p)
    \/ \E p \in Pids : BuiltinCdRedirect(p)
    \/ \E p \in Pids : ShellCd(p)
    \/ \E p \in Pids : ShellExit(p)
    \/ \E p \in Pids : EnvAssign(p)
    \/ \E p \in Pids : ExternalFork(p)
    \/ \E p \in Pids : ChildRedirect(p)
    \/ \E p \in Pids : ChildExec(p)
    \/ \E p \in Pids : ExternalWait(p)
    \/ \E p \in Pids : ProgWrite(p)
    \/ \E p \in Pids : ProgRead(p)
    \/ \E p \in Pids : ProgExit(p)
    \/ \E p \in Pids : ProgSignal(p)
    \/ \E p \in Pids : ParFork1(p)
    \/ \E p \in Pids : ParFork2(p)
    \/ \E p \in Pids : ParChild(p)
    \/ \E p \in Pids : ParWait1(p)
    \/ \E p \in Pids : ParWait2(p)
    \/ \E p \in Pids : PipeCreate(p)
    \/ \E p \in Pids : PipeFork1(p)
    \/ \E p \in Pids : PipeFork2(p)
    \/ \E p \in Pids : PipeChild1Setup(p)
    \/ \E p \in Pids : PipeChild2Setup(p)
    \/ \E p \in Pids : PipeChild(p)
    \/ \E p \in Pids : PipeClose(p)
    \/ \E p \in Pids : PipeWait1(p)
    \/ \E p \in Pids : PipeWait2(p)

Spec == Init /\ [][Next]_vars

\* the steps of the evaluation of a tree of pipes, external commands, exit
\* and sequences
PipeStep(p) ==
    \/ ParseCommand(p)
    \/ Sequential(p)
    \/ ShellExit(p)
    \/ ExternalFork(p)
    \/ ChildRedirect(p)
    \/ ChildExec(p)
    \/ ExternalWait(p)
    \/ ProgWrite(p)
    \/ ProgRead(p)
    \/ ProgExit(p)
    \/ PipeCreate(p)
    \/ PipeFork1(p)
    \/ PipeFork2(p)
    \/ PipeChild1Setup(p)
    \/ PipeChild2Setup(p)
    \/ PipeChild(p)
    \/ PipeClose(p)
    \/ PipeWait1(p)
    \/ PipeWait2(p)

PipeNext ==
    \/ \E p \in Pids : ParseCommand(p)
    \/ \E p \in Pids : Sequential(p)
    \/ \E p \in Pids : ShellExit(p)
    \/ \E p \in Pids : ExternalFork(p)
    \/ \E p \in Pids : ChildRedirect(p)
    \/ \E p \in Pids : ChildExec(p)
    \/ \E p \in Pids : ExternalWait(p)
    \/ \E p \in Pids : ProgWrite(p)
    \/ \E p \in Pids : ProgRead(p)
    \/ \E p \in Pids : ProgExit(p)
    \/ \E p \in Pids : ProgSignal(p)
    \/ \E p \in Pids : PipeCreate(p)
    \/ \E p \in Pids : PipeFork1(p)
    \/ \E p \in Pids : PipeFork2(p)
    \/ \E p \in Pids : PipeChild1Setup(p)
    \/ \E p \in Pids : PipeChild2Setup(p)
    \/ \E p \in Pids : PipeChild(p)
    \/ \E p \in Pids : PipeClose(p)
    \/ \E p \in Pids : PipeWait1(p)
    \/ \E p \in Pids : PipeWait2(p)

\* a process that can take a step takes one: the kernel schedules every
\* runnable process. No system call has to fail and no signal has to arrive.
Scheduled == \E p \in Pids : PipeStep(p) /\ faults' = faults

PipeSpec == InitOf(PipeTrees) /\ [][PipeNext]_vars /\ WF_vars(Scheduled)

WriterSpec == InitOf(WriterTrees) /\ [][PipeNext]_vars

\* the evaluation of external commands under OP_CONDITIONAL_ZERO, PARALLEL
\* and PIPE, where a signal may kill a program or a branch process
SignalNext ==
    \/ \E p \in Pids : ParseCommand(p)
    \/ \E p \in Pids : ConditionalZero(p)
    \/ \E p \in Pids : ShellExit(p)
    \/ \E p \in Pids : ExternalFork(p)
    \/ \E p \in Pids : ChildRedirect(p)
    \/ \E p \in Pids : ChildExec(p)
    \/ \E p \in Pids : ExternalWait(p)
    \/ \E p \in Pids : ProgExit(p)
    \/ \E p \in Pids : ProgSignal(p)
    \/ \E p \in Pids : BranchSignal(p)
    \/ \E p \in Pids : ParFork1(p)
    \/ \E p \in Pids : ParFork2(p)
    \/ \E p \in Pids : ParChild(p)
    \/ \E p \in Pids : ParWait1(p)
    \/ \E p \in Pids : ParWait2(p)
    \/ \E p \in Pids : PipeCreate(p)
    \/ \E p \in Pids : PipeFork1(p)
    \/ \E p \in Pids : PipeFork2(p)
    \/ \E p \in Pids : PipeChild1Setup(p)
    \/ \E p \in Pids : PipeChild2Setup(p)
    \/ \E p \in Pids : PipeChild(p)
    \/ \E p \in Pids : PipeClose(p)
    \/ \E p \in Pids : PipeWait1(p)
    \/ \E p \in Pids : PipeWait2(p)

SignalSpec == InitOf(SignalTrees) /\ [][SignalNext]_vars

\* ------------------------------------------------------------ claims
Nodes == DOMAIN evals
OpAt(n) == NodeAt(tree, n).op
Has(pr, n) == n \in DOMAIN pr.res
Terminated(q) == procs[q].st \in {"zombie", "reaped"}

\* a forked process has left the call that forked it and runs in a frame
\* of its parent
Escaped(pr) == pr.st \in {"run", "returned"} /\ Len(pr.stack) < pr.base

\* C1: in every SEQUENTIAL node whose left operand returned anything but the
\* TERMINATE sentinel (the result of exit, quit and of a NULL node), the right
\* operand is evaluated exactly once and its result is the node's result.
C1_SequentialRunsRight ==
    \A p \in Pids : \A n \in Nodes :
        LET pr == procs[p]
        IN  (/\ OpAt(n) = "OP_SEQUENTIAL"
             /\ Has(pr, n)
             /\ Has(pr, n \o <<1>>)
             /\ pr.res[n \o <<1>>] # SHELL_EXIT)
            => /\ Cnt(pr, n \o <<2>>) = 1
               /\ Has(pr, n \o <<2>>)
               /\ pr.res[n] = pr.res[n \o <<2>>]

\* a NULL node in the subtree
RECURSIVE HasNull(_)
HasNull(t) ==
    \/ t = NullCmd
    \/ IsBinary(t) /\ (HasNull(t.cmd1) \/ HasNull(t.cmd2))

\* C2: when the left operand of a SEQUENTIAL, NZERO or ZERO node, a subtree
\* without NULL nodes, returned TERMINATE (from exit or quit), the right
\* operand is never evaluated and the node returns TERMINATE.
C2_TerminatePropagates ==
    \A p \in Pids : \A n \in Nodes :
        LET pr == procs[p]
        IN  (/\ OpAt(n) \in SeqOps
             /\ Has(pr, n \o <<1>>)
             /\ ~HasNull(NodeAt(tree, n \o <<1>>))
             /\ pr.res[n \o <<1>>] = SHELL_EXIT)
            => /\ Cnt(pr, n \o <<2>>) = 0
               /\ Has(pr, n) => pr.res[n] = SHELL_EXIT

\* whether a conditional node runs its right operand after left result r
RunsRight(op, r) == IF op = "OP_CONDITIONAL_NZERO" THEN r # 0 ELSE r = 0

\* C3: for a left result r in 0..255, OP_CONDITIONAL_NZERO evaluates its
\* right operand iff r # 0 and OP_CONDITIONAL_ZERO iff r = 0; the node's
\* result is the right operand's when it ran and r otherwise; the left operand
\* is evaluated once.
C3_Conditionals ==
    \A p \in Pids : \A n \in Nodes :
        LET pr == procs[p]
            r == pr.res[n \o <<1>>]
        IN  (/\ OpAt(n) \in {"OP_CONDITIONAL_NZERO", "OP_CONDITIONAL_ZERO"}
             /\ Has(pr, n \o <<1>>)
             /\ r \in 0..255)
            => /\ Cnt(pr, n \o <<1>>) = 1
               /\ Cnt(pr, n \o <<2>>) <= 1
               /\ Cnt(pr, n \o <<2>>) = 1 => RunsRight(OpAt(n), r)
               /\ Has(pr, n) =>
                    /\ Cnt(pr, n \o <<2>>) = 1 <=> RunsRight(OpAt(n), r)
                    /\ RunsRight(OpAt(n), r) =>
                          Has(pr, n \o <<2>>) /\ pr.res[n] = pr.res[n \o <<2>>]
                    /\ ~RunsRight(OpAt(n), r) => pr.res[n] = r

\* C3 witness: a conditional node has returned after a left result above 1,
\* and another after a left result 0
C3_Witness ==
    \E p \in Pids : \E n \in Nodes :
        /\ OpAt(n) = "OP_CONDITIONAL_NZERO"
        /\ Has(procs[p], n)
        /\ Has(procs[p], n \o <<1>>)
        /\ procs[p].res[n \o <<1>>] \in 2..255
        /\ Has(procs[p], n \o <<2>>)
        /\ procs[p].res[n] = procs[p].res[n \o <<2>>]

\* C4: when both forks and both waits of a PARALLEL or PIPE node succeeded
\* and the second child exited normally, the node's result is that child's
\* exit status.
C4_SecondStatusExactly ==
    \A p \in Pids : \A n \in Nodes :
        LET pr == procs[p]
        IN  (/\ OpAt(n) \in ForkOps
             /\ Has(pr, n)
             /\ n \in DOMAIN pr.orch
             /\ pr.orch[n].w2 = "exited")
            => pr.res[n] = pr.orch[n].code

\* C5: a branch process of PARALLEL or PIPE whose subtree returned TERMINATE
\* never returns from the operator into the frames of its parent.
C5_TerminateEndsBranch ==
    \A p \in Pids :
        LET pr == procs[p]
        IN  (/\ pr.kind = "branch"
             /\ Has(pr, pr.bnode)
             /\ pr.res[pr.bnode] = SHELL_EXIT)
            => ~Escaped(pr)

\* q is c or a descendant of c
RECURSIVE IsDesc(_, _)
IsDesc(q, c) ==
    \/ q = c
    \/ procs[q].parent # 0 /\ IsDesc(procs[q].parent, c)

\* process p forked both children of PIPE node n, whose right operand is the
\* reader program, and the first child and all its descendants have terminated
WriterSideDone(p, n) ==
    /\ OpAt(n) = "OP_PIPE"
    /\ NodeAt(tree, n \o <<2>>) = Plain("rd")
    /\ n \in DOMAIN procs[p].orch
    /\ procs[p].orch[n].pid1 # 0
    /\ procs[p].orch[n].pid2 # 0
    /\ \A q \in Pids : IsDesc(q, procs[p].orch[n].pid1) => Terminated(q)

\* the PIPE node has returned in p and no live process holds the write end
PipeSettled(p, n) ==
    /\ Has(procs[p], n)
    /\ \A k \in 1..Len(pipes) : pipes[k].node = n => ~Held("pw", k)

PipePending == \E p \in Pids : \E n \in Nodes : WriterSideDone(p, n) /\ ~PipeSettled(p, n)

\* C6: once the first child of a PIPE and its descendants have terminated,
\* eventually no live process holds the write end of the pipe and the PIPE
\* node has returned in the process that forked the children, unless a fork
\* or waitpid call fails (the reader program then may never have run).
C6_PipeReturns == (PipePending /\ faults = 0) ~> (~PipePending \/ faults # 0)

\* C6 witness: a PIPE has returned after the reader saw every byte of the
\* writer and then the end of file, and exited
C6_Witness ==
    \E p \in Pids : \E n \in Nodes : \E q \in Pids :
        /\ WriterSideDone(p, n)
        /\ PipeSettled(p, n)
        /\ faults = 0
        /\ procs[p].orch[n].w2 = "exited"
        /\ q = procs[p].orch[n].pid2
        /\ \E c \in Pids : /\ procs[c].parent = q
                           /\ procs[c].prog.verb = "rd"
                           /\ procs[c].prog.eof
                           /\ Len(procs[c].prog.seen) = MaxBytes

\* s is a prefix of t
IsPrefix(s, t) == Len(s) <= Len(t) /\ \A i \in 1..Len(s) : s[i] = t[i]

\* C7: what the right operand of a PIPE of two leaves without redirects has
\* read is a prefix of what the left operand wrote, and all of it once the
\* reader has seen the end of file.
C7_ReaderSeesWriterBytes ==
    \A q \in Pids : \A k \in 1..Len(pipes) :
        LET pg == procs[q].prog
        IN  (/\ pg.verb = "rd"
             /\ pg.node = pipes[k].node \o <<2>>)
            => /\ IsPrefix(pg.seen, pipes[k].fromA)
               /\ pg.eof => pg.seen = pipes[k].fromA

\* the children process pr created for node n
Kids(pr, n) == {pr.orch[n].pid1, pr.orch[n].pid2} \ {0}

C9_OpenFailureNoExec ==
    \A p \in Pids : procs[p].openfail => procs[p].prog.verb = ""

\* C10: a node for which a fork or waitpid call failed does not return 0.
C10_FailureIsNonzero ==
    \A p \in Pids : \A n \in Nodes :
        LET pr == procs[p]
        IN  (/\ Has(pr, n)
             /\ n \in DOMAIN pr.orch
             /\ pr.orch[n].fail)
            => pr.res[n] # 0

\* node n is a leaf with the given verb
IsVerb(n, verbs) == IsLeaf(NodeAt(tree, n)) /\ NodeAt(tree, n).verb \in verbs

\* C11: a cd leaf that returned 0 had a parameter and left the process in
\* the directory it names; one that failed returned a nonzero value and left
\* the working directory as it was; without a parameter it fails; the process
\* created no child for it; and the child forked for an external command
\* has the working directory its parent had when it evaluated the command.
C11_CdChangesDirectory ==
    /\ \A p \in Pids : \A n \in Nodes :
          LET pr == procs[p]
          IN  (IsVerb(n, {"cd"}) /\ Has(pr, n))
              => /\ pr.res[n] = 0 =>
                      /\ NodeAt(tree, n).hasparam
                      /\ pr.post[n].cwd = TargetDir(NodeAt(tree, n))
                 /\ pr.res[n] # 0 => pr.post[n].cwd = pr.pre[n].cwd
                 /\ ~NodeAt(tree, n).hasparam => pr.res[n] # 0
                 /\ n \notin DOMAIN pr.orch
    /\ \A q \in Pids :
          procs[q].kind = "leaf"
          => procs[q].cwd = procs[procs[q].parent].pre[procs[q].bnode].cwd

\* C11 witness: after a cd that returned 0, an external program runs in the
\* directory cd named
C11_Witness ==
    \E q \in Pids : \E n \in Nodes :
        /\ procs[q].st = "prog"
        /\ procs[q].cwd = "d"
        /\ IsVerb(n, {"cd"})
        /\ Has(procs[procs[q].parent], n)
        /\ procs[procs[q].parent].res[n] = 0

Assigns == {"NAME=VALUE", "NAME=OTHER"}

\* C12: the child forked for an external command has NAME bound to the
\* value of the last assignment its parent evaluated before the command,
\* when that assignment returned 0; and an assignment forks no child.
C12_AssignmentReachesCommands ==
    /\ \A q \in Pids :
          LET pr == procs[q]
          IN  pr.kind = "leaf"
              => \A i \in 1..Len(pr.log) :
                    (/\ IsVerb(pr.log[i], Assigns)
                     /\ Has(pr, pr.log[i])
                     /\ pr.res[pr.log[i]] = 0
                     /\ \A j \in (i + 1)..Len(pr.log) : ~IsVerb(pr.log[j], Assigns))
                    => pr.env = AssignValue(NodeAt(tree, pr.log[i]).verb)
    /\ \A p \in Pids : \A n \in Nodes :
          IsVerb(n, Assigns) => n \notin DOMAIN procs[p].orch

\* C12 witness: an external program runs with the value of the second of
\* two assignments
C12_Witness ==
    \E q \in Pids :
        /\ procs[q].kind = "leaf"
        /\ procs[q].st = "prog"
        /\ procs[q].env = "OTHER"
        /\ \E i \in 1..Len(procs[q].log) : IsVerb(procs[q].log[i], {"NAME=VALUE"})

\* the working directory and the environment of a snapshot
Private(snap) == <<snap.cwd, snap.env>>

\* C13: when PARALLEL or PIPE has returned in the process that forked its
\* branches, the working directory and the environment of that process are
\* what they were when the operator started; and a branch process starts its
\* branch with the working directory and the environment its parent had when
\* the operator started.
C13_BranchChangesStayInBranch ==
    /\ \A p \in Pids : \A n \in Nodes :
          LET pr == procs[p]
          IN  (/\ OpAt(n) \in ForkOps
               /\ Has(pr, n)
               /\ n \in DOMAIN pr.orch)
              => Private(pr.post[n]) = Private(pr.pre[n])
    /\ \A q \in Pids :
          LET pr == procs[q]
              n == SubSeq(pr.bnode, 1, Len(pr.bnode) - 1)
          IN  (pr.kind = "branch" /\ pr.bnode \in DOMAIN pr.pre /\ Cnt(pr, pr.bnode) = 1)
              => Private(pr.pre[pr.bnode]) = Private(procs[pr.parent].pre[n])

\* C13 witness: PARALLEL or PIPE has returned in the process that forked
\* the branches, after a branch process changed its working directory or
\* its environment
C13_Witness ==
    \E p \in Pids : \E n \in Nodes : \E q \in Pids :
        /\ OpAt(n) \in ForkOps
        /\ Has(procs[p], n)
        /\ n \in DOMAIN procs[p].orch
        /\ q \in {procs[p].orch[n].pid1, procs[p].orch[n].pid2}
        /\ Private(Snapshot(procs[q])) # Private(procs[p].pre[n])
        /\ procs[p].orch[n].pid1 # 0
        /\ procs[p].orch[n].pid2 # 0

\* process q was created for a node of the subtree at path n
CreatedUnder(q, n) == procs[q].kind # "shell" /\ IsPrefix(n, procs[q].bnode)

\* C14: when no system call has failed and the evaluation of the right
\* operand of a SEQUENTIAL, NZERO or ZERO node has started, every process
\* created for a node of its left operand has terminated.
C14_LeftBeforeRight ==
    \A n \in Nodes :
        (/\ OpAt(n) \in SeqOps
         /\ faults = 0
         /\ evals[n \o <<2>>] > 0)
        => \A q \in Pids : CreatedUnder(q, n \o <<1>>) => Terminated(q)

\* descriptor fd of process record pr refers to an open file description of
\* the file called name
OnFile(pr, fd, name) ==
    /\ fd \in DOMAIN pr.fds
    /\ pr.fds[fd].k = "file"
    /\ ofds[pr.fds[fd].id].name = name

\* C15: in a program started by a leaf with distinct out and err targets,
\* the out target is open in append mode exactly under IO_OUT_APPEND and the
\* err target exactly under IO_ERR_APPEND.
C15_OpenModePerChannel ==
    \A q \in Pids :
        LET pr == procs[q]
            s == NodeAt(tree, pr.prog.node)
        IN  (pr.st = "prog" /\ s.out # s.err)
            => /\ (s.out # NoFile /\ OnFile(pr, STDOUT_FILENO, s.out))
                    => (ofds[pr.fds[STDOUT_FILENO].id].app <=> s.io_flags = "IO_OUT_APPEND")
               /\ (s.err # NoFile /\ OnFile(pr, STDERR_FILENO, s.err))
                    => (ofds[pr.fds[STDERR_FILENO].id].app <=> s.io_flags = "IO_ERR_APPEND")

\* C16: when no system call has failed, the evaluation of a node has been
\* started at most once, counted over all processes.
C16_NodeEvaluatedOnce ==
    \A n \in Nodes : faults = 0 => evals[n] <= 1

\* C17: when PIPE has returned in the process that created the pipe and
\* forked, or failed to fork, its branches, the descriptor table of that
\* process is what it was when the operator started.
C17_PipeEndsClosedOnReturn ==
    \A p \in Pids : \A n \in Nodes :
        LET pr == procs[p]
        IN  (/\ OpAt(n) = "OP_PIPE"
             /\ Has(pr, n)
             /\ n \in DOMAIN pr.orch)
            => pr.post[n].fds = pr.pre[n].fds

\* C18: after a cd leaf during which no open call failed, the standard
\* output of the process is what it was before the leaf, and when the leaf
\* has an err target the standard error is on that file.
C18_CdRedirectsOnlyStderr ==
    \A p \in Pids : \A n \in Nodes :
        LET pr == procs[p]
            s == NodeAt(tree, n)
        IN  (/\ IsVerb(n, {"cd"})
             /\ Has(pr, n)
             /\ ~pr.post[n].openfail)
            => /\ pr.post[n].fds[STDOUT_FILENO] = pr.pre[n].fds[STDOUT_FILENO]
               /\ s.err # NoFile => OnFile(pr.post[n], STDERR_FILENO, s.err)

\* C19: after a leaf has been evaluated, the descriptor table of the
\* process that evaluated it is what it was before the leaf.
C19_RedirectionScopedToLeaf ==
    \A p \in Pids : \A n \in Nodes :
        LET pr == procs[p]
        IN  (IsLeaf(NodeAt(tree, n)) /\ Has(pr, n))
            => pr.post[n].fds = pr.pre[n].fds

\* the last child process pr waited for, for node n, was killed by a signal
KilledChild(pr, n) ==
    /\ n \in DOMAIN pr.orch
    /\ pr.orch[n].w2 = "signaled"

\* C20: an external leaf, a PARALLEL or a PIPE node whose waited-for (second)
\* child was killed by a signal returns 0; and an OP_CONDITIONAL_ZERO node
\* with such a left operand, once it has returned, has evaluated its right
\* operand.
C20_SignalCountsAsSuccess ==
    \A p \in Pids : \A n \in Nodes :
        LET pr == procs[p]
        IN  /\ (Has(pr, n) /\ KilledChild(pr, n)) => pr.res[n] = 0
            /\ (/\ OpAt(n) = "OP_CONDITIONAL_ZERO"
                /\ Has(pr, n)
                /\ KilledChild(pr, n \o <<1>>))
               => Cnt(pr, n \o <<2>>) = 1

\* C20 witness: an OP_CONDITIONAL_ZERO node has returned after the second
\* child of its left operand, a PIPE, was killed by a signal
C20_Witness ==
    \E p \in Pids : \E n \in Nodes :
        /\ Has(procs[p], n)
        /\ OpAt(n) = "OP_CONDITIONAL_ZERO"
        /\ OpAt(n \o <<1>>) = "OP_PIPE"
        /\ KilledChild(procs[p], n \o <<1>>)
        /\ Has(procs[p], n \o <<2>>)

====
